---- MODULE Spec2Model ----
(***************************************************************************)
(* A model of filesdir_check.py (filesdir-check 1.1): the search for       *)
(* FILESDIR files that no ebuild of their package references.              *)
(*                                                                         *)
(* Strings are sequences of one-character strings, so that the regular     *)
(* expressions, the literal replacements and the path joins of the script  *)
(* are computed character by character, as Python computes them.           *)
(***************************************************************************)
EXTENDS Integers, Sequences, FiniteSets, TLC

(***************************************************************************)
(* Characters                                                              *)
(***************************************************************************)
Digits == {"0", "1", "2", "3", "4", "5", "6", "7", "8", "9"}

Letters ==
  {"a", "b", "c", "d", "e", "f", "g", "h", "i", "j", "k", "l", "m",
   "n", "o", "p", "q", "r", "s", "t", "u", "v", "w", "x", "y", "z",
   "A", "B", "C", "D", "E", "F", "G", "H", "I", "J", "K", "L", "M",
   "N", "O", "P", "Q", "R", "S", "T", "U", "V", "W", "X", "Y", "Z"}

BS == "\\"

DQ == "\""

(***************************************************************************)
(* Generic sequence helpers                                                *)
(***************************************************************************)
RECURSIVE Concat(_)
Concat(ss) == IF ss = <<>> THEN <<>> ELSE Head(ss) \o Concat(Tail(ss))

Range(s) == {s[k] : k \in 1..Len(s)}

StartsWithAt(s, i, t) ==
  /\ i + Len(t) - 1 <= Len(s)
  /\ \A k \in 1..Len(t) : s[i + k - 1] = t[k]

\* str.replace(old, new): every non-overlapping occurrence of old, found
\* left to right, is replaced by new (old is never empty in the script).
RECURSIVE ReplaceFrom(_, _, _, _)
ReplaceFrom(s, i, old, new) ==
  IF i > Len(s) THEN <<>>
  ELSE IF StartsWithAt(s, i, old)
       THEN new \o ReplaceFrom(s, i + Len(old), old, new)
       ELSE <<s[i]>> \o ReplaceFrom(s, i + 1, old, new)

Replace(s, old, new) == ReplaceFrom(s, 1, old, new)

(***************************************************************************)
(* Python's re, for the syntax the script's patterns use: literals, a      *)
(* backslash-escaped character, '.', '^', '$', the class [0-9] and the     *)
(* quantifier '+'.                                                         *)
(***************************************************************************)
\* Seeded fault: the pattern is used as it is, unescaped.
re_escape_none(s) == s

\* re.escape: every character that is not alphanumeric (or '_') gets a backslash.
RECURSIVE re_escape(_)
re_escape(s) ==
  IF s = <<>> THEN <<>>
  ELSE (IF Head(s) \in Letters \cup Digits \cup {"_"}
        THEN <<Head(s)>>
        ELSE <<BS, Head(s)>>) \o re_escape(Tail(s))

ClassDigits == <<"[", "0", "-", "9", "]">>

\* re.compile: the pattern as a sequence of atoms.
RECURSIVE re_compile_from(_, _)
re_compile_from(p, i) ==
  IF i > Len(p) THEN <<>>
  ELSE
    LET one ==
          IF p[i] = BS /\ i < Len(p)
            THEN [atom |-> [k |-> "lit", c |-> p[i + 1], plus |-> FALSE], n |-> 2]
          ELSE IF p[i] = "."
            THEN [atom |-> [k |-> "any", c |-> ".", plus |-> FALSE], n |-> 1]
          ELSE IF p[i] = "^"
            THEN [atom |-> [k |-> "bol", c |-> "^", plus |-> FALSE], n |-> 1]
          ELSE IF p[i] = "$"
            THEN [atom |-> [k |-> "eol", c |-> "$", plus |-> FALSE], n |-> 1]
          ELSE IF StartsWithAt(p, i, ClassDigits)
            THEN [atom |-> [k |-> "digit", c |-> "0", plus |-> FALSE], n |-> 5]
          ELSE [atom |-> [k |-> "lit", c |-> p[i], plus |-> FALSE], n |-> 1]
        j == i + one.n
    IN IF j <= Len(p) /\ p[j] = "+" /\ one.atom.k \in {"lit", "any", "digit"}
       THEN <<[one.atom EXCEPT !.plus = TRUE]>> \o re_compile_from(p, j + 1)
       ELSE <<one.atom>> \o re_compile_from(p, j)

re_compile(p) == re_compile_from(p, 1)

Fits(atom, ch) ==
  CASE atom.k = "lit" -> ch = atom.c
    [] atom.k = "any" -> ch # "\n"
    [] atom.k = "digit" -> ch \in Digits
    [] OTHER -> FALSE

\* The length of the longest run of characters from position i that fit atom.
RECURSIVE Run(_, _, _)
Run(atom, s, i) ==
  IF i <= Len(s) /\ Fits(atom, s[i]) THEN 1 + Run(atom, s, i + 1) ELSE 0

\* The position after the match of atoms[k..] that starts at position i of s,
\* as the backtracking matcher finds it (greedy '+'); 0 when there is none.
RECURSIVE MatchEnd(_, _, _, _)
RECURSIVE MatchPlus(_, _, _, _, _)
MatchEnd(atoms, k, s, i) ==
  IF k > Len(atoms) THEN i
  ELSE LET a == atoms[k] IN
    CASE a.k = "bol" -> IF i = 1 THEN MatchEnd(atoms, k + 1, s, i) ELSE 0
      [] a.k = "eol" ->
           IF i = Len(s) + 1 \/ (i = Len(s) /\ s[i] = "\n")
           THEN MatchEnd(atoms, k + 1, s, i) ELSE 0
      [] OTHER ->
           IF a.plus THEN MatchPlus(atoms, k, s, i, Run(a, s, i))
           ELSE IF i <= Len(s) /\ Fits(a, s[i])
                THEN MatchEnd(atoms, k + 1, s, i + 1) ELSE 0

MatchPlus(atoms, k, s, i, n) ==
  IF n < 1 THEN 0
  ELSE LET e == MatchEnd(atoms, k + 1, s, i + n)
       IN IF e # 0 THEN e ELSE MatchPlus(atoms, k, s, i, n - 1)

\* expression.search(s)
re_search(p, s) ==
  LET atoms == re_compile(p)
  IN \E i \in 1..(Len(s) + 1) : MatchEnd(atoms, 1, s, i) # 0

\* re.sub(p, repl, s): the leftmost non-overlapping matches are replaced.
\* (None of the script's patterns matches the empty string.)
RECURSIVE re_sub_from(_, _, _, _)
re_sub_from(atoms, repl, s, i) ==
  IF i > Len(s) THEN <<>>
  ELSE LET e == MatchEnd(atoms, 1, s, i)
       IN IF e > i
          THEN repl \o re_sub_from(atoms, repl, s, e)
          ELSE <<s[i]>> \o re_sub_from(atoms, repl, s, i + 1)

re_sub(p, repl, s) == re_sub_from(re_compile(p), repl, s, 1)

\* _grep(pattern, string_list): the elements of string_list the pattern is found in.
_grep(pattern, string_list) ==
  SelectSeq(string_list, LAMBDA x : re_search(pattern, x))

\* str.split(sep): the pieces between the separators, empty ones too.
RECURSIVE SplitOn(_, _, _)
SplitOn(str, sep, acc) ==
  IF str = <<>> THEN <<acc>>
  ELSE IF Head(str) = sep THEN <<acc>> \o SplitOn(Tail(str), sep, <<>>)
  ELSE SplitOn(Tail(str), sep, Append(acc, Head(str)))

\* os.path.join of relative components.
RECURSIVE path_join(_)
path_join(parts) ==
  IF Len(parts) = 1 THEN parts[1]
  ELSE parts[1] \o <<"/">> \o path_join(Tail(parts))

\* os.path.basename
RECURSIVE basename(_)
basename(path) ==
  IF path = <<>> THEN <<>>
  ELSE IF \E i \in 1..Len(path) : path[i] = "/"
       THEN basename(Tail(path))
       ELSE path

(***************************************************************************)
(* The file system.  A directory is the sequence of its entries in the     *)
(* order os.listdir reports them; an entry is a file (whose text can be    *)
(* read and decoded as UTF-8, or cannot) or a directory.  A tree (PORTDIR, *)
(* an overlay) is the sequence of its packages, each the category/package  *)
(* name with the package directory.                                        *)
(***************************************************************************)
File(name, text) ==
  [name |-> name, dir |-> FALSE, readable |-> TRUE, text |-> text, sub |-> <<>>]

Unreadable(name) ==
  [name |-> name, dir |-> FALSE, readable |-> FALSE, text |-> <<>>, sub |-> <<>>]

Dir(name, sub) ==
  [name |-> name, dir |-> TRUE, readable |-> FALSE, text |-> <<>>, sub |-> sub]

FILES == <<"f", "i", "l", "e", "s">>

DOT_EBUILD == <<".", "e", "b", "u", "i", "l", "d">>

HasEntry(entries, name) == \E k \in 1..Len(entries) : entries[k].name = name

Entry(entries, name) ==
  entries[CHOOSE k \in 1..Len(entries) : entries[k].name = name]

Names(entries) == [k \in 1..Len(entries) |-> entries[k].name]

\* os.path.isdir(base_directory)
IsTree(fsys, base) == base \in DOMAIN fsys

HasPackage(fsys, base, cp) ==
  IsTree(fsys, base) /\ \E k \in 1..Len(fsys[base]) : fsys[base][k].cp = cp

\* os.listdir(os.path.join(base_directory, category_package))
PackageDir(fsys, base, cp) ==
  fsys[base][CHOOSE k \in 1..Len(fsys[base]) : fsys[base][k].cp = cp].entries

\* os.path.isdir(os.path.join(base_directory, category_package, "files"))
HasFilesDir(fsys, base, cp) ==
  /\ HasPackage(fsys, base, cp)
  /\ HasEntry(PackageDir(fsys, base, cp), FILES)
  /\ Entry(PackageDir(fsys, base, cp), FILES).dir

FilesDir(fsys, base, cp) == Entry(PackageDir(fsys, base, cp), FILES).sub

\* os.path.dirname of a category/package name: its category.
RECURSIVE CategoryOf(_)
CategoryOf(cp) ==
  IF cp = <<>> \/ Head(cp) = "/" THEN <<>> ELSE <<Head(cp)>> \o CategoryOf(Tail(cp))

(***************************************************************************)
(* _list_files                                                             *)
(***************************************************************************)
\* Seeded fault: a file of a subdirectory is listed without the subdirectory's name.
RECURSIVE _list_files_flat(_)
_list_files_flat(filesdir) ==
  IF filesdir = <<>> THEN <<>>
  ELSE (IF Head(filesdir).dir
        THEN _list_files_flat(Head(filesdir).sub)
        ELSE <<Head(filesdir).name>>) \o _list_files_flat(Tail(filesdir))

RECURSIVE _list_files(_)
_list_files(filesdir) ==
  IF filesdir = <<>> THEN <<>>
  ELSE LET item == Head(filesdir)
           deeper == _list_files(item.sub)
       IN (IF item.dir
           THEN [k \in 1..Len(deeper) |-> path_join(<<item.name, deeper[k]>>)]
           ELSE <<item.name>>) \o _list_files(Tail(filesdir))

(***************************************************************************)
(* _list_ebuilds and _process_ebuild                                       *)
(***************************************************************************)
EBUILD_RE == <<BS, ".", "e", "b", "u", "i", "l", "d", "$">>

REVISION_RE == <<"-", "r", "[", "0", "-", "9", "]", "+", "$">>

_list_ebuilds(fsys, base, cp) == _grep(EBUILD_RE, Names(PackageDir(fsys, base, cp)))

\* Seeded fault: the revision is not stripped from PVR to give PV.
ebuild_vars_keep_revision(category_package, ebuild) ==
  LET pn == basename(category_package)
      pf == re_sub(EBUILD_RE, <<>>, ebuild)
      pvr == re_sub(<<"^">> \o re_escape(pn) \o <<"-">>, <<>>, pf)
  IN [PN |-> pn, PF |-> pf, PVR |-> pvr, PV |-> pvr, P |-> pn \o <<"-">> \o pvr]

\* The standard variables of an ebuild, from its file name.
ebuild_vars(category_package, ebuild) ==
  LET pn == basename(category_package)
      pf == re_sub(EBUILD_RE, <<>>, ebuild)
      pvr == re_sub(<<"^">> \o re_escape(pn) \o <<"-">>, <<>>, pf)
      pv == re_sub(REVISION_RE, <<>>, pvr)
  IN [PN |-> pn, PF |-> pf, PVR |-> pvr, PV |-> pv, P |-> pn \o <<"-">> \o pv]

Braced(x) == <<"$", "{">> \o x \o <<"}">>

Unbraced(x) == <<"$">> \o x

VarNames ==
  [PN |-> <<"P", "N">>, PF |-> <<"P", "F">>, PVR |-> <<"P", "V", "R">>,
   PV |-> <<"P", "V">>, P |-> <<"P">>]

FillOne(text, v, x) ==
  Replace(Replace(text, Braced(VarNames[x]), v[x]), Unbraced(VarNames[x]), v[x])

RECURSIVE FillAll(_, _, _)
FillAll(text, v, order) ==
  IF order = <<>> THEN text
  ELSE FillAll(FillOne(text, v, Head(order)), v, Tail(order))

\* Seeded fault: the shortest placeholder is filled in first.
fill_in_shortest_first(ebuild_text, v) ==
  FillAll(Replace(ebuild_text, <<DQ>>, <<>>), v, <<"P", "PN", "PF", "PV", "PVR">>)

\* Remove double quotes, then fill in the standard variables.
fill_in(ebuild_text, v) ==
  FillAll(Replace(ebuild_text, <<DQ>>, <<>>), v, <<"PN", "PF", "PVR", "PV", "P">>)

\* Seeded fault: an ebuild that cannot be read counts as an empty one.
_process_ebuild_swallow(fsys, base, cp, ebuild) ==
  LET f == Entry(PackageDir(fsys, base, cp), ebuild)
  IN [ok |-> TRUE,
      text |-> IF f.dir \/ ~f.readable THEN <<>>
               ELSE fill_in(f.text, ebuild_vars(cp, ebuild))]

\* ok is FALSE when codecs.open or read raises.
_process_ebuild(fsys, base, cp, ebuild) ==
  LET f == Entry(PackageDir(fsys, base, cp), ebuild)
  IN IF f.dir \/ ~f.readable
     THEN [ok |-> FALSE, text |-> <<>>]
     ELSE [ok |-> TRUE, text |-> fill_in(f.text, ebuild_vars(cp, ebuild))]

(***************************************************************************)
(* check_category_package and check_category                               *)
(*                                                                         *)
(* A line of standard output is a record: t = "path" is the line print()   *)
(* writes for an offending file (v is the path); the other kinds are the   *)
(* messages of verbose mode, with v what the message is formatted from.    *)
(* A call yields [outcome, result, printed]: outcome is "returned" or      *)
(* "raised" (an exception left the function), result the list returned,    *)
(* printed the lines written before the function was left.                 *)
(***************************************************************************)
Line(t, v, refs) == [t |-> t, v |-> v, refs |-> refs]

\* The ebuilds among `ebuilds` whose processed text references `file`
\* (lines 76 to 79).
Referencers(file, ebuilds, texts) ==
  LET hit == {k \in 1..Len(ebuilds) : _grep(re_escape(file), <<texts[k].text>>) # <<>>}
  IN SelectSeq(ebuilds, LAMBDA e : \E k \in hit : ebuilds[k] = e)

\* What one turn of the loop over file_list appends and prints (lines 80 to 88).
JudgeOne(file, referencers, path, verbose, script) ==
  IF referencers = <<>>
  THEN [result |-> <<path>>,
        printed |-> IF verbose THEN <<Line("file", file, <<>>)>>
                    ELSE IF script THEN <<Line("path", path, <<>>)>>
                    ELSE <<>>]
  ELSE [result |-> <<>>,
        printed |-> IF verbose THEN <<Line("file", file, referencers)>> ELSE <<>>]

Both(first, rest) ==
  [result |-> first.result \o rest.result, printed |-> first.printed \o rest.printed]

\* The loop over file_list (lines 73 to 88).
RECURSIVE JudgeFiles(_, _, _, _, _, _, _)
JudgeFiles(file_list, ebuilds, texts, base, cp, verbose, script) ==
  IF file_list = <<>> THEN [result |-> <<>>, printed |-> <<>>]
  ELSE Both(JudgeOne(Head(file_list),
                     Referencers(Head(file_list), ebuilds, texts),
                     path_join(<<base, cp, FILES, Head(file_list)>>),
                     verbose, script),
            JudgeFiles(Tail(file_list), ebuilds, texts, base, cp, verbose, script))

Header(verbose, cp) == IF verbose THEN <<Line("package", cp, <<>>)>> ELSE <<>>

NoFilesDir(verbose, cp) ==
  [outcome |-> "returned", result |-> <<>>,
   printed |-> Header(verbose, cp) \o
               (IF verbose THEN <<Line("nofilesdir", cp, <<>>)>> ELSE <<>>)]

\* The loop that fills in the dictionary of ebuilds (lines 69 to 71).
ProcessEbuilds(fsys, base, cp, ebuilds) ==
  [k \in 1..Len(ebuilds) |-> _process_ebuild(fsys, base, cp, ebuilds[k])]

ReadError(texts) == \E k \in 1..Len(texts) : ~texts[k].ok

Returned(header, judged) ==
  [outcome |-> "returned", result |-> judged.result,
   printed |-> header \o judged.printed]

\* Seeded fault: the files are judged against the ebuilds that could be read,
\* and the error of reading an ebuild is raised afterwards.
Judge_deferred(file_list, ebuilds, texts, base, cp, verbose, script) ==
  IF ReadError(texts)
  THEN [outcome |-> "raised", result |-> <<>>,
        printed |-> Header(verbose, cp) \o
                    JudgeFiles(file_list, ebuilds, texts, base, cp,
                               verbose, script).printed]
  ELSE Returned(Header(verbose, cp),
                JudgeFiles(file_list, ebuilds, texts, base, cp, verbose, script))

\* Lines 69 to 89, given the files and the ebuilds listed: an ebuild that
\* cannot be read raises before the first file is looked at.
Judge(file_list, ebuilds, texts, base, cp, verbose, script) ==
  IF ReadError(texts)
  THEN [outcome |-> "raised", result |-> <<>>, printed |-> Header(verbose, cp)]
  ELSE Returned(Header(verbose, cp),
                JudgeFiles(file_list, ebuilds, texts, base, cp, verbose, script))

JudgePackage(file_list, ebuilds, fsys, script, base, cp, verbose) ==
  Judge(file_list, ebuilds, ProcessEbuilds(fsys, base, cp, ebuilds),
        base, cp, verbose, script)

check_category_package(fsys, script, base, cp, verbose) ==
  IF ~HasFilesDir(fsys, base, cp)
  THEN NoFilesDir(verbose, cp)
  ELSE JudgePackage(_list_files(FilesDir(fsys, base, cp)),
                    _list_ebuilds(fsys, base, cp),
                    fsys, script, base, cp, verbose)

\* portage.portdb.cp_all(categories, trees): the packages of the trees that
\* belong to the categories, in the trees' order.
TreePackages(fsys, tree) ==
  IF IsTree(fsys, tree)
  THEN [k \in 1..Len(fsys[tree]) |-> fsys[tree][k].cp]
  ELSE <<>>

InCategories(here, categories) ==
  SelectSeq(here, LAMBDA c : \E j \in 1..Len(categories) :
                                categories[j] = CategoryOf(c))

NotIn(rest, here) == SelectSeq(rest, LAMBDA c : \A k \in 1..Len(here) : here[k] # c)

Merge(here, rest) == here \o NotIn(rest, here)

RECURSIVE cp_all(_, _, _)
cp_all(fsys, categories, trees) ==
  IF trees = <<>> THEN <<>>
  ELSE Merge(InCategories(TreePackages(fsys, Head(trees)), categories),
             cp_all(fsys, categories, Tail(trees)))

Call(cp, r) ==
  [cp |-> cp, outcome |-> r.outcome, result |-> r.result, printed |-> r.printed]

Raised(calls) == \E k \in 1..Len(calls) : calls[k].outcome = "raised"

\* The loop of check_category (lines 50 and 51) over the packages left, with
\* the calls of check_category_package made so far: a call that raises ends it.
RECURSIVE CategoryLoop(_, _, _, _, _, _)
CategoryLoop(fsys, script, base, category_packages, verbose, calls) ==
  IF category_packages = <<>> \/ Raised(calls) THEN calls
  ELSE CategoryLoop(fsys, script, base, Tail(category_packages), verbose,
                    Append(calls,
                           Call(Head(category_packages),
                                check_category_package(fsys, script, base,
                                                       Head(category_packages),
                                                       verbose))))

Results(calls) == Concat([k \in 1..Len(calls) |-> calls[k].result])

Printed(calls) == Concat([k \in 1..Len(calls) |-> calls[k].printed])

RECURSIVE Reverse(_)
Reverse(s) == IF s = <<>> THEN <<>> ELSE Append(Reverse(Tail(s)), Head(s))

CategoryHeader(verbose, category) ==
  IF verbose THEN <<Line("category", category, <<>>)>> ELSE <<>>

\* Seeded fault: each package's files are put in front of the list, not after it.
CategoryOutcome_prepend(header, calls) ==
  [outcome |-> IF Raised(calls) THEN "raised" ELSE "returned",
   result |-> IF Raised(calls) THEN <<>> ELSE Results(Reverse(calls)),
   printed |-> header \o Printed(calls),
   calls |-> calls]

\* What check_category returns and has printed, from the calls of
\* check_category_package it made (lines 49 to 52).
CategoryOutcome(header, calls) ==
  [outcome |-> IF Raised(calls) THEN "raised" ELSE "returned",
   result |-> IF Raised(calls) THEN <<>> ELSE Results(calls),
   printed |-> header \o Printed(calls),
   calls |-> calls]

check_category(fsys, script, base, category, verbose) ==
  CategoryOutcome(CategoryHeader(verbose, category),
                  CategoryLoop(fsys, script, base,
                               cp_all(fsys, <<category>>, <<base>>), verbose, <<>>))

(***************************************************************************)
(* The state: the file system, how the module runs, and what it has done.  *)
(***************************************************************************)
VARIABLES
  fs,       \* the trees, by base directory
  script,   \* __name__ == "__main__"
  stdout,   \* the lines printed so far
  last,     \* the most recent call of a function of the module, with its outcome
  ncalls,   \* the number of calls made
  recipe,   \* the ebuild _process_ebuild is applied to: name, version, revision, text
  argv,     \* the command line: the options and the positional arguments
  pc,       \* where the script is: "start", "main", "scan", "exited", "done", "crashed"
  status,   \* how the process ended: "running", "ok", "version", "usage", "traceback"
  processed_arguments,  \* what _parse_command_line returned to _main
  todo,     \* the turns of the loops of _main still to run
  scanned   \* the scans _main has made: [target, arg]

vars == <<fs, script, stdout, last, ncalls, recipe, argv, pc, status,
          processed_arguments, todo, scanned>>

runvars == <<argv, pc, status, processed_arguments, todo, scanned>>

NoRecipe == [name |-> <<>>, version |-> <<>>, revision |-> <<>>, text |-> <<>>]

NoArgv ==
  [directory |-> <<>>, overlays |-> FALSE, verbose |-> FALSE,
   show_version |-> FALSE, arguments |-> <<>>]

\* The script is not run: the module is used as a library.
NoRun ==
  /\ argv = NoArgv
  /\ pc = "library"
  /\ status = "running"
  /\ processed_arguments = <<>>
  /\ todo = <<>>
  /\ scanned = <<>>

NoCall ==
  [fn |-> "none", base |-> <<>>, arg |-> <<>>, verbose |-> FALSE,
   outcome |-> "none", result |-> <<>>, printed |-> <<>>, calls |-> <<>>]

(***************************************************************************)
(* The trees the scan is run on: PORTDIR holds a/bar, a/foo and b/foo.     *)
(***************************************************************************)
PORTDIR == <<"/", "p">>

CatA == <<"a">>

CatB == <<"b">>

Bar == <<"a", "/", "b", "a", "r">>

Foo == <<"a", "/", "f", "o", "o">>

BFoo == <<"b", "/", "f", "o", "o">>

Missing == <<"a", "/", "z", "z">>

Ebuild(pf) == pf \o DOT_EBUILD

Manifest == File(<<"M", "a", "n", "i", "f", "e", "s", "t">>, <<"x">>)

F_ab == <<"a", ".", "b">>

F_foo1p == <<"f", "o", "o", "-", "1", ".", "p">>

F_barp == <<"b", "a", "r", ".", "p">>

Foo1 == <<"f", "o", "o", "-", "1">>

Foo2 == <<"f", "o", "o", "-", "2">>

Foo2r1 == <<"f", "o", "o", "-", "2", "-", "r", "1">>

FooFilesChoices ==
  { <<>>,
    <<Dir(FILES, <<>>)>>,
    <<Dir(FILES, <<File(F_ab, <<>>), Dir(<<"d">>, <<File(<<"x">>, <<>>)>>)>>)>>,
    <<Dir(FILES, <<File(F_foo1p, <<>>), File(<<"x">>, <<>>)>>)>>,
    <<Dir(FILES, <<Dir(<<"e">>, <<>>)>>)>> }

FooEbuildsChoices ==
  { <<>>,
    \* "${P}.p" axb d/x
    <<File(Ebuild(Foo1),
           <<DQ, "$", "{", "P", "}", ".", "p", DQ, " ", "a", "x", "b",
             " ", "d", "/", "x">>)>>,
    \* a.b d/x
    <<File(Ebuild(Foo1), F_ab \o <<" ", "d", "/", "x">>),
      Unreadable(Ebuild(Foo2r1))>>,
    \* x   and   $PN-$PV.p a.b
    <<File(Ebuild(Foo1), <<"x">>),
      File(Ebuild(Foo2),
           <<"$", "P", "N", "-", "$", "P", "V", ".", "p", " ">> \o F_ab)>>,
    <<Unreadable(Ebuild(Foo1))>> }

BarFilesChoices == { <<>>, <<Dir(FILES, <<File(F_barp, <<>>)>>)>> }

BarEbuildChoices ==
  { File(Ebuild(<<"b", "a", "r", "-", "1">>), F_barp),
    File(Ebuild(<<"b", "a", "r", "-", "1">>), <<"z", "z", "z">>),
    Unreadable(Ebuild(<<"b", "a", "r", "-", "1">>)) }

BFooDir ==
  <<Manifest, File(Ebuild(<<"f", "o", "o", "-", "3">>), <<"q">>),
    Dir(FILES, <<File(<<"y">>, <<>>)>>)>>

Tree(be, bf, fe, ff) ==
  <<[cp |-> Bar, entries |-> <<be, Manifest>> \o bf],
    [cp |-> Foo, entries |-> <<Manifest>> \o fe \o ff],
    [cp |-> BFoo, entries |-> BFooDir]>>

ScanTrees ==
  { Tree(be, bf, fe, ff) :
      be \in BarEbuildChoices, bf \in BarFilesChoices,
      fe \in FooEbuildsChoices, ff \in FooFilesChoices }

MaxCalls == 2

InitScan ==
  /\ fs \in {[b \in {PORTDIR} |-> t] : t \in ScanTrees}
  /\ script \in BOOLEAN
  /\ stdout = <<>>
  /\ last = NoCall
  /\ ncalls = 0
  /\ recipe = NoRecipe
  /\ NoRun

Record(fn, base, arg, verbose, r) ==
  [fn |-> fn, base |-> base, arg |-> arg, verbose |-> verbose,
   outcome |-> r.outcome, result |-> r.result, printed |-> r.printed,
   calls |-> r.calls]

Alone(call) ==
  [outcome |-> call.outcome, result |-> call.result, printed |-> call.printed,
   calls |-> <<call>>]

\* A caller of the module calls check_category.
CallCheckCategory ==
  /\ ncalls < MaxCalls
  /\ \E category \in {CatA, CatB}, verbose \in BOOLEAN :
       \E r \in {check_category(fs, script, PORTDIR, category, verbose)} :
          /\ last' = Record("check_category", PORTDIR, category, verbose, r)
          /\ stdout' = stdout \o r.printed
  /\ ncalls' = ncalls + 1
  /\ UNCHANGED <<fs, script, recipe, runvars>>

\* A caller of the module calls check_category_package.
CallCheckCategoryPackage ==
  /\ ncalls < MaxCalls
  /\ \E cp \in {Bar, Foo, BFoo, Missing}, verbose \in BOOLEAN :
       \E r \in {check_category_package(fs, script, PORTDIR, cp, verbose)} :
          /\ last' = Record("check_category_package", PORTDIR, cp, verbose,
                            Alone(Call(cp, r)))
          /\ stdout' = stdout \o r.printed
  /\ ncalls' = ncalls + 1
  /\ UNCHANGED <<fs, script, recipe, runvars>>

NextScan == CallCheckCategory \/ CallCheckCategoryPackage

SpecScan == InitScan /\ [][NextScan]_vars

(***************************************************************************)
(* The script: _parse_command_line and _main (Spec).                       *)
(*                                                                         *)
(* portage is configured with the categories a and b, PORTDIR = /p and     *)
(* PORTDIR_OVERLAY = "/o /q"; its index holds the packages of these trees. *)
(***************************************************************************)
Categories == <<CatA, CatB>>

OVERLAY_O == <<"/", "o">>

OVERLAY_Q == <<"/", "q">>

PORTDIR_OVERLAY == OVERLAY_O \o <<" ">> \o OVERLAY_Q

NotADir == <<"/", "x">>

BBaz == <<"b", "/", "b", "a", "z">>

OverlayTree ==
  <<[cp |-> BBaz,
     entries |-> <<File(Ebuild(<<"b", "a", "z", "-", "1">>), <<"q">>),
                   Dir(FILES, <<File(<<"z">>, <<>>)>>)>>]>>

RunPortdirs ==
  { Tree(File(Ebuild(<<"b", "a", "r", "-", "1">>), <<"z", "z", "z">>),
         <<Dir(FILES, <<File(F_barp, <<>>)>>)>>,
         fe,
         <<Dir(FILES, <<File(F_ab, <<>>), Dir(<<"d">>, <<File(<<"x">>, <<>>)>>)>>)>>) :
      fe \in { <<File(Ebuild(Foo1), <<"d", "/", "x">>)>>,
               <<Unreadable(Ebuild(Foo1))>> } }

\* portage.portdb.cp_all(): every package of every tree of the configuration.
all_category_packages(fsys) ==
  cp_all(fsys, Categories, <<PORTDIR>> \o SplitOn(PORTDIR_OVERLAY, " ", <<>>))

\* The loop over the arguments (lines 149 to 157): ok is FALSE when it ends
\* in sys.exit.
RECURSIVE ProcessArguments(_, _, _, _)
ProcessArguments(arguments, all_categories, all_cps, processed) ==
  IF arguments = <<>> THEN [ok |-> TRUE, processed |-> processed]
  ELSE IF Head(arguments) \in Range(all_categories)
    THEN ProcessArguments(Tail(arguments), all_categories, all_cps,
                          Append(processed, Head(arguments)))
  ELSE IF Head(arguments) \in Range(all_cps)
    THEN ProcessArguments(Tail(arguments), all_categories, all_cps,
                          Append(processed, Head(arguments)))
  ELSE IF _grep(<<"/">> \o Head(arguments), all_cps) # <<>>
    THEN ProcessArguments(Tail(arguments), all_categories, all_cps,
                          processed \o
                          _grep(<<"/">> \o Head(arguments) \o <<"$">>, all_cps))
  ELSE [ok |-> FALSE, processed |-> processed]

\* Lines 145 to 161, with the outcome of the loop over the arguments.
AfterArguments(a, pa) ==
  IF ~pa.ok THEN [exit |-> "usage", processed |-> <<>>]
  ELSE IF a.show_version THEN [exit |-> "version", processed |-> <<>>]
  ELSE [exit |-> "none", processed |-> pa.processed]

\* exit is "none" when the function returns, else how sys.exit ended the run.
\* The option --directory is <<>> when it is not given (None), else <<DIR>>.
_parse_command_line(a, fsys) ==
  IF a.directory # <<>> /\ a.overlays
    THEN [exit |-> "usage", processed |-> <<>>]
  ELSE IF a.directory # <<>> /\ ~IsTree(fsys, a.directory[1])
    THEN [exit |-> "usage", processed |-> <<>>]
  ELSE AfterArguments(a, ProcessArguments(a.arguments, Categories,
                                          all_category_packages(fsys), <<>>))

\* Seeded fault: sys.exit does not end the run.
ExitEnds_never(exit) == FALSE

\* sys.exit raises SystemExit, which nothing catches: _main goes no further.
ExitEnds(exit) == exit # "none"

\* target_directories (lines 203 to 209)
target_directories(a) ==
  IF a.overlays THEN SplitOn(PORTDIR_OVERLAY, " ", <<>>)
  ELSE IF a.directory # <<>> /\ a.directory[1] # <<>> THEN <<a.directory[1]>>
  ELSE <<PORTDIR>>

Turn(kind, target, arg) == [kind |-> kind, target |-> target, arg |-> arg]

\* The turns of the inner loops for one target (lines 214 to 222).
TargetTurns(target, processed) ==
  IF processed # <<>>
  THEN [k \in 1..Len(processed) |->
          Turn(IF processed[k] \in Range(Categories) THEN "category" ELSE "package",
               target, processed[k])]
  ELSE [k \in 1..Len(Categories) |-> Turn("category", target, Categories[k])]

\* The turns of the loops of _main (lines 211 to 222), in order.
RECURSIVE Turns(_, _)
Turns(targets, processed) ==
  IF targets = <<>> THEN <<>>
  ELSE <<Turn("tree", Head(targets), <<>>)>>
       \o TargetTurns(Head(targets), processed)
       \o Turns(Tail(targets), processed)

MaxArgs == 2

Arguments ==
  { CatA, Foo, <<"f", "o", "o">>, <<"b", "a", "r">>, <<"f", "o">>,
    <<"f", ".", "o">>, Missing, <<"z", "z">> }

Init ==
  /\ fs \in {(PORTDIR :> t) @@ (OVERLAY_O :> OverlayTree) @@ (OVERLAY_Q :> <<>>) :
             t \in RunPortdirs}
  /\ script = TRUE
  /\ stdout = <<>>
  /\ last = NoCall
  /\ ncalls = 0
  /\ recipe = NoRecipe
  /\ argv \in [directory : {<<>>, <<PORTDIR>>, <<NotADir>>},
               overlays : BOOLEAN, verbose : BOOLEAN, show_version : BOOLEAN,
               arguments : UNION {[1..n -> Arguments] : n \in 0..MaxArgs}]
  /\ pc = "start"
  /\ status = "running"
  /\ processed_arguments = <<>>
  /\ todo = <<>>
  /\ scanned = <<>>

\* _main up to its loops: _parse_command_line, then target_directories.
ParseCommandLine ==
  /\ pc = "start"
  /\ \E r \in {_parse_command_line(argv, fs)} :
       /\ status' = IF r.exit = "none" THEN status ELSE r.exit
       /\ pc' = IF ExitEnds(r.exit) THEN "exited" ELSE "scan"
       /\ stdout' = IF r.exit = "version"
                    THEN <<Line("version", <<>>, <<>>)>> ELSE stdout
       /\ processed_arguments' = r.processed
       /\ todo' = IF ExitEnds(r.exit) THEN <<>>
                  ELSE Turns(target_directories(argv), r.processed)
  /\ UNCHANGED <<fs, script, last, ncalls, recipe, argv, scanned>>

\* The loop over target_directories comes to a tree (lines 211 to 213).
EnterTree ==
  /\ pc = "scan" /\ todo # <<>> /\ Head(todo).kind = "tree"
  /\ stdout' = stdout \o (IF argv.verbose
                          THEN <<Line("tree", Head(todo).target, <<>>)>>
                          ELSE <<>>)
  /\ todo' = Tail(todo)
  /\ UNCHANGED <<fs, script, last, ncalls, recipe, argv, pc, status,
                 processed_arguments, scanned>>

Scan(r, fn) ==
  /\ last' = Record(fn, Head(todo).target, Head(todo).arg, argv.verbose, r)
  /\ stdout' = stdout \o r.printed
  /\ scanned' = Append(scanned, [target |-> Head(todo).target, arg |-> Head(todo).arg])
  /\ ncalls' = ncalls + 1
  /\ IF r.outcome = "raised"
     THEN pc' = "crashed" /\ status' = "traceback" /\ todo' = <<>>
     ELSE pc' = pc /\ status' = status /\ todo' = Tail(todo)
  /\ UNCHANGED <<fs, script, recipe, argv, processed_arguments>>

\* _main calls check_category (lines 217 and 222).
ScanCategory ==
  /\ pc = "scan" /\ todo # <<>> /\ Head(todo).kind = "category"
  /\ \E r \in {check_category(fs, script, Head(todo).target, Head(todo).arg,
                              argv.verbose)} :
       Scan(r, "check_category")

\* _main calls check_category_package (line 219).
ScanPackage ==
  /\ pc = "scan" /\ todo # <<>> /\ Head(todo).kind = "package"
  /\ \E r \in {check_category_package(fs, script, Head(todo).target,
                                      Head(todo).arg, argv.verbose)} :
       Scan(Alone(Call(Head(todo).arg, r)), "check_category_package")

\* The loops are over: _main returns and the process ends.
Finish ==
  /\ pc = "scan" /\ todo = <<>>
  /\ pc' = "done"
  /\ status' = IF status = "running" THEN "ok" ELSE status
  /\ UNCHANGED <<fs, script, stdout, last, ncalls, recipe, argv,
                 processed_arguments, todo, scanned>>

Next == ParseCommandLine \/ EnterTree \/ ScanCategory \/ ScanPackage \/ Finish

Spec == Init /\ [][Next]_vars

ExactScope(argument) ==
  \/ argument \in Range(Categories)
  \/ argument \in Range(all_category_packages(fs))
  \/ \E c \in Range(Categories) :
       c \o <<"/">> \o argument \in Range(all_category_packages(fs))

\* C2: an argument that is no category, no category/package of the index and
\* no bare name of a package of the index is a usage error: the run ends with
\* the error, nothing is scanned and nothing is printed.
C2_InexactArgumentIsUsageError ==
  (pc # "start" /\ \E k \in 1..Len(argv.arguments) : ~ExactScope(argv.arguments[k])) =>
    /\ status = "usage"
    /\ scanned = <<>>
    /\ stdout = <<>>

Conflict == argv.directory # <<>> /\ argv.overlays

BadRoot == argv.directory # <<>> /\ argv.directory[1] \notin DOMAIN fs

\* The argument names nothing and is found in no name of the index.
Unmatched(argument) ==
  /\ ~ExactScope(argument)
  /\ \A cp \in Range(all_category_packages(fs)) :
       ~re_search(<<"/">> \o argument, cp)

\* C4: conflicting options, a --directory that is no directory and an
\* argument that matches nothing end the run with a usage error, and a run
\* that ends with a usage error has scanned nothing and printed nothing.
C4_ValidationBeforeScanning ==
  /\ (pc # "start"
        /\ (Conflict \/ BadRoot
              \/ \E k \in 1..Len(argv.arguments) : Unmatched(argv.arguments[k])))
       => status = "usage"
  /\ status = "usage" =>
       (pc = "exited" /\ scanned = <<>> /\ stdout = <<>> /\ todo = <<>>)

\* A run with a valid argument before one that matches nothing, and no other
\* error, ended with the usage error.
C4_Witness ==
  /\ status = "usage" /\ pc = "exited"
  /\ ~Conflict /\ ~BadRoot
  /\ Len(argv.arguments) = 2
  /\ ExactScope(argv.arguments[1])
  /\ Unmatched(argv.arguments[2])

(***************************************************************************)
(* _process_ebuild applied to one ebuild (SpecEbuild): the package a/<name> *)
(* holds <name>-<version><revision>.ebuild with the text drawn.            *)
(***************************************************************************)
MaxRevDigits == 2

PackageNames == {<<"f", "o", "o">>, <<"a", "-", "b">>, <<"g", "+">>}

Versions == {<<"1">>, <<"1", ".", "2", ".", "3">>, <<"2", "_", "p", "1">>}

Revisions ==
  {<<>>} \cup {<<"-", "r">> \o d : d \in UNION {[1..n -> {"0", "4"}] : n \in 1..MaxRevDigits}}

Vars == {"PN", "PF", "PVR", "PV", "P"}

Placeholder(x, braced, quoted) ==
  (IF quoted THEN <<DQ>> ELSE <<>>)
  \o (IF braced THEN Braced(VarNames[x]) ELSE Unbraced(VarNames[x]))
  \o (IF quoted THEN <<DQ>> ELSE <<>>)

RecipeTexts ==
  {Placeholder(x, b, q) : x \in Vars, b \in BOOLEAN, q \in BOOLEAN}
  \cup { <<DQ, "$", "{", "P", "}", ".", "p", DQ>>,
         <<"$", "P", "V", "R", "$", "P", "V">>,
         <<"x", " ", DQ, "y", DQ>> }

RecipeCP(r) == <<"a", "/">> \o r.name

RecipeFile(r) == r.name \o <<"-">> \o r.version \o r.revision \o DOT_EBUILD

InitEbuild ==
  /\ recipe \in [name : PackageNames, version : Versions,
                 revision : Revisions, text : RecipeTexts]
  /\ fs = [b \in {PORTDIR} |->
             <<[cp |-> RecipeCP(recipe),
                entries |-> <<Manifest, File(RecipeFile(recipe), recipe.text)>>]>>]
  /\ script = FALSE
  /\ stdout = <<>>
  /\ last = NoCall
  /\ ncalls = 0
  /\ NoRun

\* check_category_package calls _process_ebuild for an ebuild _list_ebuilds lists.
ProcessEbuild ==
  /\ ncalls = 0
  /\ \E ebuild \in Range(_list_ebuilds(fs, PORTDIR, RecipeCP(recipe))) :
       \E r \in {_process_ebuild(fs, PORTDIR, RecipeCP(recipe), ebuild)} :
          last' = [fn |-> "_process_ebuild", base |-> PORTDIR, arg |-> ebuild,
                   vars |-> ebuild_vars(RecipeCP(recipe), ebuild),
                   ok |-> r.ok, text |-> r.text]
  /\ ncalls' = 1
  /\ UNCHANGED <<fs, script, stdout, recipe, runvars>>

NextEbuild == ProcessEbuild

SpecEbuild == InitEbuild /\ [][NextEbuild]_vars

\* C7: from <name>-<version>[-r<digits>].ebuild in the package <name>:
\* PN = <name>, PF = the file name without .ebuild, PVR = PF without "PN-",
\* PV = PVR without the revision, P = PN-PV; so PF = PN-PVR, and PVR is PV
\* followed by the revision, if there is one.
C7_RecipeIdentity ==
  last.fn = "_process_ebuild" =>
    /\ last.vars.PN = recipe.name
    /\ last.vars.PF = recipe.name \o <<"-">> \o recipe.version \o recipe.revision
    /\ last.vars.PVR = recipe.version \o recipe.revision
    /\ last.vars.PV = recipe.version
    /\ last.vars.P = recipe.name \o <<"-">> \o recipe.version
    /\ last.vars.PF = last.vars.PN \o <<"-">> \o last.vars.PVR
    /\ last.vars.PVR = last.vars.PV \o recipe.revision

\* The ebuild of a package with '+' in its name, with a revision of two digits,
\* was processed.
C7_Witness ==
  /\ last.fn = "_process_ebuild"
  /\ recipe.name = <<"g", "+">>
  /\ Len(recipe.revision) = 4
  /\ last.vars.PV = recipe.version
  /\ last.vars.PVR # last.vars.PV

Expected(x) ==
  CASE x = "PN" -> recipe.name
    [] x = "PF" -> recipe.name \o <<"-">> \o recipe.version \o recipe.revision
    [] x = "PVR" -> recipe.version \o recipe.revision
    [] x = "PV" -> recipe.version
    [] x = "P" -> recipe.name \o <<"-">> \o recipe.version

\* C8: a text that is one placeholder, ${X} or $X, in double quotes or not,
\* is normalized to the value of X, without quotes.
C8_PlaceholderValue ==
  last.fn = "_process_ebuild" =>
    \A x \in Vars, b \in BOOLEAN, q \in BOOLEAN :
      recipe.text = Placeholder(x, b, q) => (last.ok /\ last.text = Expected(x))

\* "$PVR", in quotes, of an ebuild with a revision was normalized to PVR.
C8_Witness ==
  /\ last.fn = "_process_ebuild"
  /\ recipe.text = Placeholder("PVR", FALSE, TRUE)
  /\ recipe.revision # <<>>
  /\ last.text = recipe.version \o recipe.revision

(***************************************************************************)
(* _list_files applied to a files directory (SpecList): at each level the  *)
(* files x and y and the directory d, in any order, down to MaxDepth.      *)
(***************************************************************************)
MaxDepth == 2

FileLists ==
  { <<>>, <<File(<<"x">>, <<>>)>>, <<File(<<"y">>, <<>>)>>,
    <<File(<<"x">>, <<>>), File(<<"y">>, <<>>)>>,
    <<File(<<"y">>, <<>>), File(<<"x">>, <<>>)>> }

InsertAt(s, pos, e) == SubSeq(s, 1, pos) \o <<e>> \o SubSeq(s, pos + 1, Len(s))

RECURSIVE Trees(_)
Trees(depth) ==
  FileLists \cup
  (IF depth = 0 THEN {}
   ELSE {InsertAt(fp[1], fp[2], Dir(<<"d">>, t)) :
           fp \in {x \in FileLists \X (0..2) : x[2] <= Len(x[1])},
           t \in Trees(depth - 1)})

InitList ==
  /\ fs \in {[b \in {PORTDIR} |->
               <<[cp |-> Foo, entries |-> <<Manifest, Dir(FILES, t)>>]>>] :
             t \in Trees(MaxDepth)}
  /\ script = FALSE
  /\ stdout = <<>>
  /\ last = NoCall
  /\ ncalls = 0
  /\ recipe = NoRecipe
  /\ NoRun

\* check_category_package calls _list_files for the files directory.
ListFiles ==
  /\ ncalls = 0
  /\ HasFilesDir(fs, PORTDIR, Foo)
  /\ last' = [fn |-> "_list_files", base |-> PORTDIR, arg |-> Foo,
              result |-> _list_files(FilesDir(fs, PORTDIR, Foo))]
  /\ ncalls' = 1
  /\ UNCHANGED <<fs, script, stdout, recipe, runvars>>

NextList == ListFiles

SpecList == InitList /\ [][NextList]_vars

\* The names between the '/' of a relative path.
Segments(path, acc) == SplitOn(path, "/", acc)

\* Following segs from the directory leads to an entry that is no directory.
RECURSIVE LeadsToFile(_, _)
LeadsToFile(entries, segs) ==
  /\ segs # <<>>
  /\ HasEntry(entries, Head(segs))
  /\ IF Len(segs) = 1
     THEN ~Entry(entries, Head(segs)).dir
     ELSE /\ Entry(entries, Head(segs)).dir
          /\ LeadsToFile(Entry(entries, Head(segs)).sub, Tail(segs))

RECURSIVE CountFiles(_)
CountFiles(entries) ==
  IF entries = <<>> THEN 0
  ELSE (IF Head(entries).dir THEN CountFiles(Head(entries).sub) ELSE 1)
       + CountFiles(Tail(entries))

\* C9: _list_files returns each entry under the root that is no directory,
\* once, by its path from the root through every directory on the way, and
\* nothing else.
C9_ListFiles ==
  last.fn = "_list_files" =>
    /\ \A k \in 1..Len(last.result) :
         LeadsToFile(FilesDir(fs, PORTDIR, Foo), Segments(last.result[k], <<>>))
    /\ \A i, j \in 1..Len(last.result) : i # j => last.result[i] # last.result[j]
    /\ Len(last.result) = CountFiles(FilesDir(fs, PORTDIR, Foo))

\* A directory was listed that holds a file, and a directory d with a file
\* and an empty directory.
C9_Witness ==
  /\ last.fn = "_list_files"
  /\ <<"d", "/", "x">> \in Range(last.result)
  /\ <<"y">> \in Range(last.result)
  /\ HasEntry(Entry(FilesDir(fs, PORTDIR, Foo), <<"d">>).sub, <<"d">>)
  /\ Entry(Entry(FilesDir(fs, PORTDIR, Foo), <<"d">>).sub, <<"d">>).sub = <<>>

(***************************************************************************)
(* Properties of check_category_package and check_category (SpecScan).     *)
(* They are stated with plain containment of sequences, not with the       *)
(* functions of the module.                                                *)
(***************************************************************************)
Contains(text, sub) ==
  \E i \in 1..(Len(text) - Len(sub) + 1) : SubSeq(text, i, i + Len(sub) - 1) = sub

EndsWith(s, t) ==
  Len(t) <= Len(s) /\ SubSeq(s, Len(s) - Len(t) + 1, Len(s)) = t

Recipes(base, cp) ==
  IF HasPackage(fs, base, cp)
  THEN {e \in Range(PackageDir(fs, base, cp)) : EndsWith(e.name, DOT_EBUILD)}
  ELSE {}

AllReadable(base, cp) == \A e \in Recipes(base, cp) : ~e.dir /\ e.readable

NormalizedTexts(base, cp) ==
  {_process_ebuild(fs, base, cp, e.name).text : e \in Recipes(base, cp)}

AuxFiles(base, cp) == Range(_list_files(FilesDir(fs, base, cp)))

Qualified(base, cp, file) == base \o <<"/">> \o cp \o <<"/">> \o FILES \o <<"/">> \o file

Reported(c, file) == Qualified(last.base, c.cp, file) \in Range(c.result)

Unreferenced(base, cp, file) == \A t \in NormalizedTexts(base, cp) : ~Contains(t, file)

\* C1: for a package with a files directory whose recipes can all be read,
\* check_category_package returns, and a file of the package is in the list it
\* returns exactly when its relative path is a literal substring of none of
\* the package's normalized recipe texts.
C1_ReportedIffUnreferenced ==
  \A k \in 1..Len(last.calls) :
    LET c == last.calls[k]
    IN (HasFilesDir(fs, last.base, c.cp) /\ AllReadable(last.base, c.cp)) =>
         /\ c.outcome = "returned"
         /\ \A file \in AuxFiles(last.base, c.cp) :
              Reported(c, file) <=> Unreferenced(last.base, c.cp, file)

\* A package was scanned of which one file is reported and one is not, and a
\* file with a '.' in its name is reported although a recipe holds "axb".
C1_Witness ==
  \E k \in 1..Len(last.calls) :
    LET c == last.calls[k]
    IN /\ HasFilesDir(fs, last.base, c.cp) /\ AllReadable(last.base, c.cp)
       /\ Recipes(last.base, c.cp) # {}
       /\ Reported(c, F_ab)
       /\ \E t \in NormalizedTexts(last.base, c.cp) : Contains(t, <<"a", "x", "b">>)
       /\ \E file \in AuxFiles(last.base, c.cp) : ~Reported(c, file)

EmptyOrAbsent(base, cp) ==
  ~HasFilesDir(fs, base, cp) \/ FilesDir(fs, base, cp) = <<>>

\* C3: a package whose files directory is absent or empty makes
\* check_category_package return the empty list, whatever its recipes are.
C3_EmptyOrAbsentReturnsNothing ==
  \A k \in 1..Len(last.calls) :
    EmptyOrAbsent(last.base, last.calls[k].cp) =>
      last.calls[k].outcome = "returned" /\ last.calls[k].result = <<>>

\* Where a path stands: <<p, k>> when it is file k of _list_files for package p
\* of the index's list for the category.
ListOf(cp) ==
  IF HasFilesDir(fs, last.base, cp)
  THEN _list_files(FilesDir(fs, last.base, cp))
  ELSE <<>>

Place(path) ==
  LET cps == cp_all(fs, <<last.arg>>, <<last.base>>)
  IN {pk \in UNION {{p} \X (1..Len(ListOf(cps[p]))) : p \in 1..Len(cps)} :
        path = Qualified(last.base, cps[pk[1]], ListOf(cps[pk[1]])[pk[2]])}

Before(a, b) == a[1] < b[1] \/ (a[1] = b[1] /\ a[2] < b[2])

\* C5: the list check_category returns is ordered by the package's place in
\* the index's list and, within a package, by the file's place in the list
\* of _list_files.
C5_ResultOrder ==
  (last.fn = "check_category" /\ last.outcome = "returned") =>
    \A i, j \in 1..Len(last.result) :
      i < j => \E a \in Place(last.result[i]), b \in Place(last.result[j]) : Before(a, b)

\* check_category returned files of two packages, two of them of one package.
C5_Witness ==
  /\ last.fn = "check_category" /\ last.outcome = "returned"
  /\ Len(last.calls) = 2
  /\ last.calls[1].result # <<>>
  /\ Len(last.calls[2].result) = 2
  /\ Len(last.result) = 3

\* C6: when a recipe of a package with a files directory cannot be read,
\* check_category_package raises: it returns no list.
C6_ReadFailureRaises ==
  \A k \in 1..Len(last.calls) :
    (HasFilesDir(fs, last.base, last.calls[k].cp)
       /\ ~AllReadable(last.base, last.calls[k].cp)) =>
      /\ last.calls[k].outcome = "raised"
      /\ last.outcome = "raised"

\* A package with files and with one recipe that can be read (and references
\* them) and one that cannot was scanned.
C6_Witness ==
  \E k \in 1..Len(last.calls) :
    LET c == last.calls[k]
    IN /\ HasFilesDir(fs, last.base, c.cp)
       /\ AuxFiles(last.base, c.cp) # {}
       /\ \E e \in Recipes(last.base, c.cp) : e.readable
       /\ \E e \in Recipes(last.base, c.cp) : ~e.readable
       /\ c.outcome = "raised"

FileLines(printed) == {k \in 1..Len(printed) : printed[k].t \in {"path", "file"}}

\* C10: a call of check_category_package that raises has printed no file and
\* returned none, and what the calls before it printed stays printed.
C10_AllOrNothing ==
  [][/\ \A k \in 1..Len(last'.calls) :
          last'.calls[k].outcome = "raised" =>
            /\ last'.calls[k].result = <<>>
            /\ FileLines(last'.calls[k].printed) = {}
     /\ \E header \in {<<>>, <<Line("category", last'.arg, <<>>)>>} :
          stdout' = stdout \o header \o Printed(last'.calls)]_vars

\* check_category printed a file of its first package and its second package
\* raised: the line is on standard output.
C10_Witness ==
  /\ last.fn = "check_category"
  /\ Len(last.calls) = 2
  /\ last.calls[2].outcome = "raised"
  /\ AuxFiles(last.base, last.calls[2].cp) # {}
  /\ FileLines(last.calls[1].printed) # {}
  /\ \E i \in 1..Len(stdout) : stdout[i] = last.calls[1].printed[1]

====
